---- MODULE Spec2Model ----
(***************************************************************************)
(* A model of the uml_analyzer core: GraphBuilder (graph_builder.py),      *)
(* GraphAnalyzer (analyzer.py) and DiagramFilter (filter.py).              *)
(*                                                                         *)
(* Conventions                                                             *)
(*  - a Python str that the code only compares is a TLA+ string; a str the *)
(*    code takes apart (namespace: startswith, replace) is a sequence of   *)
(*    one-character strings;                                               *)
(*  - a Python dict is kept with its insertion order where the code        *)
(*    iterates it: the node table is the sequence graph.nodes plus the     *)
(*    attribute function graph.attr;                                       *)
(*  - a float is kept exact: a relationship weight in tenths, a ratio as   *)
(*    the pair [num, den];                                                 *)
(*  - what an operation hands back is a record: [val |-> v] for a value,   *)
(*    [none |-> TRUE] for None, [exc |-> <class name>] for an exception    *)
(*    that leaves the operation.                                           *)
(***************************************************************************)
EXTENDS Integers, Sequences, FiniteSets, TLC

VARIABLES
    data,     \* DiagramData handed to GraphBuilder: [elements, relationships]
    graph,    \* GraphBuilder.graph (nx.DiGraph): [nodes, attr, edge]
    pc,       \* "new" before GraphBuilder.__init__ has run, "built" after
    call,     \* the last operation invoked, with its arguments
    ret,      \* what that operation returned (or the exception it raised)
    cache,    \* GraphAnalyzer._pagerank_cache, _betweenness_cache, _communities_cache
    views,    \* DiagramFilter.views: view name -> set of node ids
    last,     \* the DiagramFilter operation that returned last: its call, its
              \* result and the view store it left
    ncalls,   \* number of DiagramFilter operations invoked so far
    threads   \* callers running a cached GraphAnalyzer method at the same
              \* time: where each one is, what it holds, what it returned

vars == <<data, graph, pc, call, ret, cache, views, last, ncalls, threads>>
filterVars == <<cache, views, last, ncalls, threads>>

(***************************************************************************)
(* Bounds of the model.                                                    *)
(***************************************************************************)
MaxRels == 2          \* longest relationship list handed to the builder
MaxHops == 2          \* largest max_hops passed to get_nodes_within_hops
MaxComplexity == 1    \* largest complexity score of an element (analyzer inputs)
MaxMinDegree == 2     \* largest min_degree passed to find_hotspots
MaxCalls == 2         \* DiagramFilter operations invoked in one behaviour
NumCallers == 2       \* callers that enter a cached analyzer method together

Val(v) == [val |-> v]
None == [none |-> TRUE]
Raise(class) == [exc |-> class]
\* an exception with its message, the message as the pieces of its f-string
RaiseMsg(class, msg) == [exc |-> class, msg |-> msg]
IsVal(r) == "val" \in DOMAIN r
IsNone(r) == "none" \in DOMAIN r
IsExc(r) == "exc" \in DOMAIN r

\* Element ids the inputs draw from; relationships may name any of them,
\* whether or not an element with that id exists.
IdPool == <<"A", "B", "C">>
Ids == {IdPool[i] : i \in DOMAIN IdPool}
RelTypes == {"extension", "dependency"}
Directions == {"in", "out", "both"}

SeqToSet(s) == {s[i] : i \in DOMAIN s}
SeqsUpTo(S, n) == UNION {[1..k -> S] : k \in 0..n}

(***************************************************************************)
(* graph_builder.py                                                        *)
(***************************************************************************)
\* nx.DiGraph(): no nodes, no edges.
EmptyGraph == [nodes |-> <<>>, attr |-> <<>>, edge |-> <<>>]

NodeSet(G) == SeqToSet(G.nodes)
EdgeSet(G) == DOMAIN G.edge

\* GraphBuilder._get_relationship_weight, in tenths.
get_relationship_weight(rel_type) ==
    CASE rel_type = "extension"   -> 20
      [] rel_type = "composition" -> 18
      [] rel_type = "aggregation" -> 15
      [] rel_type = "association" -> 12
      [] rel_type = "dependency"  -> 8
      [] OTHER                    -> 10

\* DiGraph.add_node(id, **attrs): a new id is appended to the node table, a
\* known id keeps its place and has its attributes overwritten.
add_node(G, elem) ==
    [G EXCEPT !.nodes = IF elem.id \in NodeSet(G) THEN @ ELSE Append(@, elem.id),
              !.attr  = [n \in NodeSet(G) \cup {elem.id} |->
                            IF n = elem.id THEN elem ELSE G.attr[n]]]

\* DiGraph.add_edge(u, v, **attrs): one attribute dict per ordered pair; a
\* second add_edge of the same pair updates that dict in place.
add_edge(G, rel) ==
    LET p == <<rel.source, rel.destination>>
        a == [type |-> rel.type, weight |-> get_relationship_weight(rel.type)]
    IN [G EXCEPT !.edge = [q \in EdgeSet(G) \cup {p} |->
                              IF q = p THEN a ELSE G.edge[q]]]

RECURSIVE AddNodes(_, _, _)
AddNodes(G, elements, i) ==
    IF i > Len(elements) THEN G
    ELSE AddNodes(add_node(G, elements[i]), elements, i + 1)

\* One turn of the relationship loop of _build_graph (lines 40-53).
MutAddRel(G, rel) == add_edge(G, rel)
AddRel(G, rel) ==
    IF rel.source \in NodeSet(G) /\ rel.destination \in NodeSet(G)
    THEN add_edge(G, rel)
    ELSE G

RECURSIVE AddRels(_, _, _)
AddRels(G, rels, i) ==
    IF i > Len(rels) THEN G
    ELSE AddRels(AddRel(G, rels[i]), rels, i + 1)

\* GraphBuilder._build_graph: all nodes first, then the edges.
build_graph(d) == AddRels(AddNodes(EmptyGraph, d.elements, 1), d.relationships, 1)

predecessors(G, n) == {m \in NodeSet(G) : <<m, n>> \in EdgeSet(G)}
successors(G, n) == {m \in NodeSet(G) : <<n, m>> \in EdgeSet(G)}

MutNeighbors(G, node_id, direction) ==
    IF node_id \notin NodeSet(G) THEN {}
    ELSE IF direction = "in" THEN predecessors(G, node_id)
    ELSE successors(G, node_id)
get_neighbors(G, node_id, direction) ==
    IF node_id \notin NodeSet(G) THEN {}
    ELSE IF direction = "in" THEN predecessors(G, node_id)
    ELSE IF direction = "out" THEN successors(G, node_id)
    ELSE predecessors(G, node_id) \cup successors(G, node_id)

\* The for-loop of get_nodes_within_hops (lines 105-115); `left` is the
\* number of turns range(max_hops) still has.
RECURSIVE HopsLoop(_, _, _, _, _)
MutHopsLoopLayer(G, visited, current_layer, left, direction) ==
    IF left <= 0 THEN visited
    ELSE LET next_layer == UNION {get_neighbors(G, n, direction) \ visited :
                                      n \in current_layer}
         IN IF next_layer = {} THEN visited
            ELSE HopsLoop(G, next_layer, next_layer, left - 1, direction)
MutHopsLoopExtra(G, visited, current_layer, left, direction) ==
    IF left < 0 THEN visited
    ELSE LET next_layer == UNION {get_neighbors(G, n, direction) \ visited :
                                      n \in current_layer}
         IN IF next_layer = {} THEN visited
            ELSE HopsLoop(G, visited \cup next_layer, next_layer, left - 1, direction)
HopsLoop(G, visited, current_layer, left, direction) ==
    IF left <= 0 THEN visited
    ELSE LET next_layer == UNION {get_neighbors(G, n, direction) \ visited :
                                      n \in current_layer}
         IN IF next_layer = {} THEN visited
            ELSE HopsLoop(G, visited \cup next_layer, next_layer, left - 1, direction)

get_nodes_within_hops(G, center_node, max_hops, direction) ==
    IF center_node \notin NodeSet(G) THEN {}
    ELSE HopsLoop(G, {center_node}, {center_node}, max_hops, direction)

\* nx.shortest_path(G, source, target) with no weight: a breadth-first search
\* along the edges. BfsLayers is the sequence of layers reached from source,
\* layer k holding the nodes first seen after k-1 steps.
RECURSIVE BfsLayers(_, _, _)
BfsLayers(G, layers, seen) ==
    LET nxt == UNION {successors(G, n) : n \in layers[Len(layers)]} \ seen
    IN IF nxt = {} THEN layers ELSE BfsLayers(G, Append(layers, nxt), seen \cup nxt)

\* The path is read back from the target through the predecessor found for
\* each node; which predecessor the library keeps among several of the same
\* layer is fixed by its adjacency order: a fixed choice here.
RECURSIVE PathBack(_, _, _, _)
PathBack(G, layers, k, path) ==
    IF k = 1 THEN path
    ELSE LET p == CHOOSE m \in layers[k - 1] : <<m, path[1]>> \in EdgeSet(G)
         IN PathBack(G, layers, k - 1, <<p>> \o path)

nx_shortest_path(G, source, target) ==
    IF source \notin NodeSet(G) \/ target \notin NodeSet(G)
    THEN Raise("NodeNotFound")
    ELSE LET layers == BfsLayers(G, <<{source}>>, {source})
         IN IF \E k \in DOMAIN layers : target \in layers[k]
            THEN Val(PathBack(G, layers,
                              CHOOSE k \in DOMAIN layers : target \in layers[k],
                              <<target>>))
            ELSE Raise("NetworkXNoPath")

Caught(r, classes) == IsExc(r) /\ r.exc \in classes

\* GraphBuilder.find_shortest_path: the two library exceptions become None.
MutFindShortestPath(G, source, target) ==
    LET r == nx_shortest_path(G, source, target)
    IN IF Caught(r, {"NetworkXNoPath"}) THEN None ELSE r
find_shortest_path(G, source, target) ==
    LET r == nx_shortest_path(G, source, target)
    IN IF Caught(r, {"NetworkXNoPath", "NodeNotFound"}) THEN None ELSE r

(***************************************************************************)
(* Inputs and operations of the graph model.                               *)
(***************************************************************************)
PlainElement(id) ==
    [id |-> id, name |-> id, full_name |-> id, namespace |-> <<>>, complexity |-> 0]

\* Element lists: the ids of a dict are distinct.
IdLists == {s \in SeqsUpTo(Ids, Len(IdPool)) :
               \A i, j \in DOMAIN s : i < j => s[i] # s[j]}
\* The graph queries never look at the value of an id, so for them one
\* element list per number of elements is enough: the prefixes of IdPool
\* (the ids left out are the dangling endpoints of relationships).
PrefixIdLists == {SubSeq(IdPool, 1, k) : k \in 0..Len(IdPool)}

Relationships == [source : Ids, destination : Ids, type : RelTypes]

NoCall == [op |-> "none"]
NoCache == [pagerank |-> None, betweenness |-> None, communities |-> None]
NoLast == [call |-> NoCall, ret |-> None, views |-> <<>>]
NoThreads == <<>>

\* Before GraphBuilder.__init__: nothing built, computed or stored yet.
Fresh ==
    /\ graph = EmptyGraph
    /\ pc = "new"
    /\ call = NoCall
    /\ ret = None
    /\ cache = NoCache
    /\ views = <<>>
    /\ last = NoLast
    /\ ncalls = 0
    /\ threads = NoThreads

Init ==
    /\ \E ids \in PrefixIdLists, rels \in SeqsUpTo(Relationships, MaxRels) :
          data = [elements |-> [i \in DOMAIN ids |-> PlainElement(ids[i])],
                  relationships |-> rels]
    /\ Fresh

\* The core is single-threaded and synchronous: an operation is invoked when
\* no other is in progress (Idle), and its caller takes the result (Return).
Idle == pc = "built" /\ call = NoCall

Return ==
    /\ pc = "built"
    /\ call # NoCall
    /\ call' = NoCall
    /\ ret' = None
    /\ UNCHANGED <<data, graph, pc, filterVars>>

\* GraphBuilder.__init__
Construct ==
    /\ pc = "new"
    /\ graph' = build_graph(data)
    /\ pc' = "built"
    /\ call' = [op |-> "Construct"]
    /\ ret' = None
    /\ UNCHANGED <<data, filterVars>>

GetNeighbors ==
    /\ Idle
    /\ \E n \in Ids, d \in Directions :
          /\ call' = [op |-> "get_neighbors", node_id |-> n, direction |-> d]
          /\ ret' = Val(get_neighbors(graph, n, d))
    /\ UNCHANGED <<data, graph, pc, filterVars>>

GetNodesWithinHops ==
    /\ Idle
    /\ \E c \in Ids, h \in 0..MaxHops, d \in Directions :
          /\ call' = [op |-> "get_nodes_within_hops", center_node |-> c,
                      max_hops |-> h, direction |-> d]
          /\ ret' = Val(get_nodes_within_hops(graph, c, h, d))
    /\ UNCHANGED <<data, graph, pc, filterVars>>

FindShortestPath ==
    /\ Idle
    /\ \E s \in Ids, t \in Ids :
          /\ call' = [op |-> "find_shortest_path", source |-> s, target |-> t]
          /\ ret' = find_shortest_path(graph, s, t)
    /\ UNCHANGED <<data, graph, pc, filterVars>>

Next == Construct \/ GetNeighbors \/ GetNodesWithinHops \/ FindShortestPath \/ Return

Spec == Init /\ [][Next]_vars

(***************************************************************************)
(* Graph model: construction and traversal (claims C1-C6, under Spec).     *)
(***************************************************************************)
Built == pc = "built"
ElementIds == {data.elements[i].id : i \in DOMAIN data.elements}
Rels == data.relationships
Dangling(rel) == rel.source \notin ElementIds \/ rel.destination \notin ElementIds

\* C1: after Construct every edge has both endpoints in the node set; a
\* relationship with an endpoint that is no element id adds no edge and no
\* node, so the node set is the set of element ids, the edges are the pairs of
\* the other relationships, and there are at most as many edges as
\* relationships.
C1_EdgesReferenceNodes ==
    Built =>
        /\ \A e \in EdgeSet(graph) : e[1] \in NodeSet(graph) /\ e[2] \in NodeSet(graph)
        /\ NodeSet(graph) = ElementIds
        /\ DOMAIN graph.attr = ElementIds
        /\ EdgeSet(graph) = {<<Rels[i].source, Rels[i].destination>> :
                                i \in {j \in DOMAIN Rels : ~Dangling(Rels[j])}}
        /\ Cardinality(EdgeSet(graph)) <= Len(Rels)

C1_Witness ==
    /\ Built
    /\ \E i \in DOMAIN Rels : Dangling(Rels[i])
    /\ EdgeSet(graph) # {}

\* C2 (as claimed): two relationships with the same ordered pair of
\* registered endpoints and different kinds are both held by the graph: each
\* kind, with its weight, can be read back from an edge of that pair, and the
\* edge count is the number of distinct (source, destination, kind) triples.
HasEdgeOfKind(G, rel) ==
    /\ <<rel.source, rel.destination>> \in EdgeSet(G)
    /\ G.edge[<<rel.source, rel.destination>>].type = rel.type
    /\ G.edge[<<rel.source, rel.destination>>].weight = get_relationship_weight(rel.type)

C2_ParallelKindsKept ==
    Built =>
        /\ \A i \in DOMAIN Rels : ~Dangling(Rels[i]) => HasEdgeOfKind(graph, Rels[i])
        /\ Cardinality(EdgeSet(graph))
             = Cardinality({Rels[i] : i \in {j \in DOMAIN Rels : ~Dangling(Rels[j])}})

IsCall(op) == call.op = op

\* C3 (as claimed): with max_hops = 0 the result is {center} for every center
\* value passed.
C3_ZeroHopsAnyCenter ==
    (IsCall("get_nodes_within_hops") /\ call.max_hops = 0)
        => ret = Val({call.center_node})

\* C3 (amended): with max_hops = 0 the result is {center} when center is a
\* node of the graph, and the empty set when it is not.
C3_ZeroHops ==
    (IsCall("get_nodes_within_hops") /\ call.max_hops = 0)
        => ret = Val(IF call.center_node \in NodeSet(graph)
                     THEN {call.center_node} ELSE {})

C3_Witness ==
    /\ IsCall("get_nodes_within_hops") /\ call.max_hops = 0
    /\ call.center_node \in NodeSet(graph)
    /\ get_neighbors(graph, call.center_node, call.direction) \ {call.center_node} # {}
    /\ ret = Val({call.center_node})

\* C4: the result for h hops is a subset of the result for h+1 hops, for the
\* same center and direction.
C4_HopsMonotonic ==
    IsCall("get_nodes_within_hops")
        => /\ IsVal(ret)
           /\ ret.val \subseteq get_nodes_within_hops(graph, call.center_node,
                                     call.max_hops + 1, call.direction)
           /\ \A h \in 0..call.max_hops :
                 get_nodes_within_hops(graph, call.center_node, h, call.direction)
                    \subseteq ret.val

\* The result grows from h to h+1 on a graph with a cycle.
C4_Witness ==
    /\ IsCall("get_nodes_within_hops") /\ call.max_hops = 1
    /\ \E a, b \in NodeSet(graph) :
          a # b /\ <<a, b>> \in EdgeSet(graph) /\ <<b, a>> \in EdgeSet(graph)
    /\ Cardinality(ret.val) = 2

\* C5: Neighbors(n, both) = Neighbors(n, in) \cup Neighbors(n, out), in being
\* the sources of the edges into n and out the targets of the edges out of
\* n; for an id that is no node all three are empty (and nothing is raised).
EdgesInto(n) == {e[1] : e \in {f \in EdgeSet(graph) : f[2] = n}}
EdgesOutOf(n) == {e[2] : e \in {f \in EdgeSet(graph) : f[1] = n}}

C5_NeighborsUnion ==
    IsCall("get_neighbors")
        => LET n == call.node_id IN
           /\ IsVal(ret)
           /\ call.direction = "in" => ret.val = EdgesInto(n)
           /\ call.direction = "out" => ret.val = EdgesOutOf(n)
           /\ call.direction = "both"
                => ret.val = get_neighbors(graph, n, "in") \cup get_neighbors(graph, n, "out")
           /\ n \notin NodeSet(graph) => ret.val = {}

C5_Witness ==
    /\ IsCall("get_neighbors") /\ call.direction = "both"
    /\ EdgesInto(call.node_id) # {}
    /\ EdgesOutOf(call.node_id) # {}
    /\ EdgesInto(call.node_id) # EdgesOutOf(call.node_id)
    /\ ret.val = EdgesInto(call.node_id) \cup EdgesOutOf(call.node_id)

\* C6: find_shortest_path returns a directed path from source to target with
\* the fewest edges of all such paths (<<source>> when source = target), and
\* None, raising nothing, exactly when there is no directed path: target not
\* reachable from source, or source or target not a node.
IsPath(G, p) ==
    /\ Len(p) >= 1
    /\ \A i \in DOMAIN p : p[i] \in NodeSet(G)
    /\ \A i \in 1..(Len(p) - 1) : <<p[i], p[i + 1]>> \in EdgeSet(G)
\* A shortest path visits no node twice, so it has at most |nodes| nodes.
PathsBetween(G, s, t) ==
    {p \in SeqsUpTo(NodeSet(G), Cardinality(NodeSet(G))) :
        IsPath(G, p) /\ p[1] = s /\ p[Len(p)] = t}

C6_ShortestPath ==
    IsCall("find_shortest_path")
        => LET P == PathsBetween(graph, call.source, call.target) IN
           /\ ~IsExc(ret)
           /\ IsNone(ret) <=> P = {}
           /\ IsVal(ret) => /\ ret.val \in P
                             /\ \A q \in P : Len(ret.val) <= Len(q)
           /\ (call.source = call.target /\ call.source \in NodeSet(graph))
                => ret = Val(<<call.source>>)

C6_Witness ==
    /\ IsCall("find_shortest_path")
    /\ IsVal(ret) /\ Len(ret.val) = 3
    /\ <<call.target, call.source>> \notin EdgeSet(graph)

(***************************************************************************)
(* analyzer.py                                                             *)
(***************************************************************************)
\* DiGraph.in_degree / out_degree / degree: a self-loop counts once in each
\* of the first two, so twice in degree.
in_degree(G, n) == Cardinality(predecessors(G, n))
out_degree(G, n) == Cardinality(successors(G, n))
degree(G, n) == in_degree(G, n) + out_degree(G, n)

\* GraphAnalyzer.find_hotspots
MutFindHotspots(G, min_degree, min_complexity) ==
    {n \in NodeSet(G) :
        degree(G, n) >= min_degree \/ G.attr[n].complexity >= min_complexity}
find_hotspots(G, min_degree, min_complexity) ==
    {n \in NodeSet(G) :
        degree(G, n) >= min_degree /\ G.attr[n].complexity >= min_complexity}

\* A float quotient a / b of two small integers, kept exact.
Ratio(a, b) == [num |-> a, den |-> b]
Zero == [num |-> 0, den |-> 1]
RatioEq(r, a, b) == r.num * b = a * r.den

NamespaceOf(G, n) == G.attr[n].namespace
NamespacesOf(G) == {NamespaceOf(G, n) : n \in NodeSet(G)}

\* analyze_namespace_coupling, lines 164-167: the nodes of each namespace.
NamespaceNodes(G) ==
    [ns \in NamespacesOf(G) |->
        [nodes |-> {n \in NodeSet(G) : NamespaceOf(G, n) = ns},
         internal_edges |-> 0, external_edges_out |-> 0, external_edges_in |-> 0]]

\* analyze_namespace_coupling, lines 170-178: one edge of the loop.
MutCountEdge(G, stats, e) ==
    LET source_ns == NamespaceOf(G, e[1])
        target_ns == NamespaceOf(G, e[2])
    IN IF source_ns = target_ns
       THEN [stats EXCEPT ![source_ns].internal_edges = @ + 1]
       ELSE [stats EXCEPT ![source_ns].external_edges_out = @ + 1]
CountEdge(G, stats, e) ==
    LET source_ns == NamespaceOf(G, e[1])
        target_ns == NamespaceOf(G, e[2])
    IN IF source_ns = target_ns
       THEN [stats EXCEPT ![source_ns].internal_edges = @ + 1]
       ELSE [stats EXCEPT ![source_ns].external_edges_out = @ + 1,
                          ![target_ns].external_edges_in = @ + 1]

RECURSIVE CountEdges(_, _, _)
CountEdges(G, stats, edges) ==
    IF edges = {} THEN stats
    ELSE LET e == CHOOSE x \in edges : TRUE
         IN CountEdges(G, CountEdge(G, stats, e), edges \ {e})

\* GraphAnalyzer.analyze_namespace_coupling
analyze_namespace_coupling(G) ==
    LET namespace_stats == CountEdges(G, NamespaceNodes(G), EdgeSet(G))
    IN [ns \in DOMAIN namespace_stats |->
          LET stats == namespace_stats[ns]
              node_count == Cardinality(stats.nodes)
              internal == stats.internal_edges
              external == stats.external_edges_out + stats.external_edges_in
              total == internal + external
          IN [node_count |-> node_count,
              internal_edges |-> internal,
              external_edges |-> external,
              cohesion |-> IF total > 0 THEN Ratio(internal, total) ELSE Zero,
              coupling |-> IF node_count > 0 THEN Ratio(external, node_count) ELSE Zero]]

(***************************************************************************)
(* Inputs and operations of the analyzer.                                  *)
(***************************************************************************)
\* Namespaces as sequences of characters.
NsP == <<"p">>
NsQ == <<"q">>

\* Elements that differ in complexity (for the hotspot thresholds) or in
\* namespace (for the coupling table).
ScoredElements ==
    UNION {[DOMAIN ids -> 0..MaxComplexity] : ids \in PrefixIdLists}
NamespacedElements ==
    UNION {[DOMAIN ids -> {NsP, NsQ}] : ids \in PrefixIdLists}
AnalyzerElements ==
    {[i \in DOMAIN c |-> [PlainElement(IdPool[i]) EXCEPT !.complexity = c[i]]] :
        c \in ScoredElements}
    \cup
    {[i \in DOMAIN ns |-> [PlainElement(IdPool[i]) EXCEPT !.namespace = ns[i]]] :
        ns \in NamespacedElements}
DependencyRels == {r \in Relationships : r.type = "dependency"}

InitAnalyzer ==
    /\ \E elems \in AnalyzerElements, rels \in SeqsUpTo(DependencyRels, MaxRels) :
          data = [elements |-> elems, relationships |-> rels]
    /\ Fresh

FindHotspots ==
    /\ Idle
    /\ \E d \in 0..MaxMinDegree, c \in 0..(MaxComplexity + 1) :
          /\ call' = [op |-> "find_hotspots", min_degree |-> d, min_complexity |-> c]
          /\ ret' = Val(find_hotspots(graph, d, c))
    /\ UNCHANGED <<data, graph, pc, filterVars>>

AnalyzeNamespaceCoupling ==
    /\ Idle
    /\ call' = [op |-> "analyze_namespace_coupling"]
    /\ ret' = Val(analyze_namespace_coupling(graph))
    /\ UNCHANGED <<data, graph, pc, filterVars>>

NextAnalyzer == Construct \/ FindHotspots \/ AnalyzeNamespaceCoupling \/ Return

SpecAnalyzer == InitAnalyzer /\ [][NextAnalyzer]_vars

(***************************************************************************)
(* Analyzer: hotspots and namespace coupling (claims C7-C8, under          *)
(* SpecAnalyzer).                                                          *)
(***************************************************************************)
\* Total degree counted on the edge set: edges into n plus edges out of n.
TotalDegree(n) ==
    Cardinality({e \in EdgeSet(graph) : e[2] = n})
  + Cardinality({e \in EdgeSet(graph) : e[1] = n})
Complexity(n) == graph.attr[n].complexity

\* C7: find_hotspots returns exactly the nodes with total degree >=
\* min_degree and complexity >= min_complexity: a node meeting one threshold
\* only is left out, a node meeting both with equality is returned.
C7_HotspotConjunction ==
    IsCall("find_hotspots")
        => /\ IsVal(ret)
           /\ \A n \in NodeSet(graph) :
                 n \in ret.val <=> /\ TotalDegree(n) >= call.min_degree
                                   /\ Complexity(n) >= call.min_complexity
           /\ ret.val \subseteq NodeSet(graph)

C7_Witness ==
    /\ IsCall("find_hotspots")
    /\ \E a, b, c \in NodeSet(graph) :
          /\ TotalDegree(a) > call.min_degree /\ Complexity(a) < call.min_complexity
          /\ TotalDegree(b) < call.min_degree /\ Complexity(b) >= call.min_complexity
          /\ TotalDegree(c) = call.min_degree /\ Complexity(c) = call.min_complexity
          /\ ret.val = {c}

\* C8: per namespace of the coupling table, internal_edges counts the edges
\* with both endpoints in the namespace, external_edges the edges with
\* exactly one endpoint in it, cohesion = internal / (internal + external),
\* within [0, 1] and 0 without edges, coupling = external / node_count.
InNs(n, ns) == graph.attr[n].namespace = ns
InternalEdges(ns) == {e \in EdgeSet(graph) : InNs(e[1], ns) /\ InNs(e[2], ns)}
ExternalEdges(ns) == {e \in EdgeSet(graph) : InNs(e[1], ns) # InNs(e[2], ns)}

C8_NamespaceCoupling ==
    IsCall("analyze_namespace_coupling")
        => /\ IsVal(ret)
           /\ DOMAIN ret.val = {graph.attr[n].namespace : n \in NodeSet(graph)}
           /\ \A ns \in DOMAIN ret.val :
                 LET row == ret.val[ns]
                     i == Cardinality(InternalEdges(ns))
                     x == Cardinality(ExternalEdges(ns))
                 IN /\ row.node_count = Cardinality({n \in NodeSet(graph) : InNs(n, ns)})
                    /\ row.internal_edges = i
                    /\ row.external_edges = x
                    /\ row.cohesion.den > 0 /\ row.coupling.den > 0
                    /\ 0 <= row.cohesion.num /\ row.cohesion.num <= row.cohesion.den
                    /\ i + x > 0 => RatioEq(row.cohesion, i, i + x)
                    /\ i + x = 0 => row.cohesion.num = 0
                    /\ RatioEq(row.coupling, x, row.node_count)

\* The scenario of the specification: two nodes in a namespace, one edge
\* inside it and one edge to a node outside: cohesion 1/2, coupling 1/2.
C8_Witness ==
    /\ IsCall("analyze_namespace_coupling")
    /\ \E ns \in DOMAIN ret.val :
          /\ ret.val[ns].node_count = 2
          /\ Cardinality(InternalEdges(ns)) = 1
          /\ Cardinality(ExternalEdges(ns)) = 1
          /\ RatioEq(ret.val[ns].cohesion, 1, 2)
          /\ RatioEq(ret.val[ns].coupling, 1, 2)

(***************************************************************************)
(* graph_builder.py, analyzer.py: what the view filter calls.              *)
(***************************************************************************)
\* str.startswith on character sequences.
StartsWith(str, prefix) ==
    Len(prefix) <= Len(str) /\ SubSeq(str, 1, Len(prefix)) = prefix

\* Matching on the whole namespace instead of its beginning.
MutNodesByNamespace(G, namespace_pattern) ==
    {n \in NodeSet(G) : G.attr[n].namespace = namespace_pattern}
\* GraphBuilder.get_nodes_by_namespace
get_nodes_by_namespace(G, namespace_pattern) ==
    {n \in NodeSet(G) : StartsWith(G.attr[n].namespace, namespace_pattern)}

\* Position of a node in the node table (the iteration order of the graph).
NodeIndex(G, n) == CHOOSE i \in DOMAIN G.nodes : G.nodes[i] = n

\* sorted(scores.items(), key=score, reverse=True): a stable sort, so nodes
\* of equal score keep the order of the dict, which is the node order.
\* `key` maps each node to an integer that orders the scores.
RankDescending(G, key, n) ==
    1 + Cardinality({m \in NodeSet(G) :
            key[m] > key[n] \/ (key[m] = key[n] /\ NodeIndex(G, m) < NodeIndex(G, n))})
\* The items left in dict order, not sorted.
MutSortedDescending(G, key) == G.nodes
SortedDescending(G, key) ==
    [k \in 1..Len(G.nodes) |-> CHOOSE n \in NodeSet(G) : RankDescending(G, key, n) = k]

\* nx.degree_centrality: degree / (n - 1), and 1 for every node when n <= 1.
degree_centrality(G) ==
    [n \in NodeSet(G) |->
        IF Len(G.nodes) <= 1 THEN Ratio(1, 1)
        ELSE Ratio(degree(G, n), Len(G.nodes) - 1)]

\* The cached library metrics: calculate_pagerank, calculate_betweenness_
\* centrality. `computed` is what the library returns if it is asked.
Cached(c, metric, computed) ==
    IF IsNone(c[metric]) THEN [c EXCEPT ![metric] = Val(computed)] ELSE c

\* The library is asked (the cache is empty) and raises instead of
\* answering: `computed` is then the exception, which leaves the method
\* before the cache field is assigned.
LibraryRaises(c, metric, computed) == IsNone(c[metric]) /\ IsExc(computed)

Metrics == {"pagerank", "betweenness", "degree", "in_degree", "out_degree"}

\* GraphAnalyzer.get_top_nodes_by_metric: [ret, cache]; ret is the list of
\* (node, score) pairs, or the ValueError for an unknown metric.
get_top_nodes_by_metric(G, c, metric, top_n, computed) ==
    IF metric \notin Metrics
    THEN [ret |-> RaiseMsg("ValueError", <<"Unknown metric: ", metric>>), cache |-> c]
    ELSE IF metric \in {"pagerank", "betweenness"} /\ LibraryRaises(c, metric, computed)
    THEN [ret |-> computed, cache |-> c]
    ELSE LET c2 == IF metric \in {"pagerank", "betweenness"}
                   THEN Cached(c, metric, computed) ELSE c
             scores ==
                 CASE metric \in {"pagerank", "betweenness"} -> c2[metric].val
                   [] metric = "degree" -> degree_centrality(G)
                   [] metric = "in_degree" ->
                        [n \in NodeSet(G) |-> Ratio(in_degree(G, n), 1)]
                   [] metric = "out_degree" ->
                        [n \in NodeSet(G) |-> Ratio(out_degree(G, n), 1)]
             \* within one metric all scores share their denominator
             sorted_nodes == SortedDescending(G, [n \in NodeSet(G) |-> scores[n].num])
             k == IF top_n < Len(sorted_nodes) THEN top_n ELSE Len(sorted_nodes)
         IN [ret |-> Val([i \in 1..k |-> <<sorted_nodes[i], scores[sorted_nodes[i]]>>]),
             cache |-> c2]

\* GraphAnalyzer.detect_communities: the partition is computed on the
\* first call only; `computed` is what best_partition returns if asked.
MutDetectCommunities(c, computed) ==
    [ret |-> computed, cache |-> [c EXCEPT !.communities = Val(computed)]]
detect_communities(c, computed) ==
    IF LibraryRaises(c, "communities", computed)
    THEN [ret |-> computed, cache |-> c]
    ELSE LET c2 == Cached(c, "communities", computed)
         IN [ret |-> c2.communities.val, cache |-> c2]

\* GraphAnalyzer.get_community_members(None), given the cached partition.
get_community_members(communities) ==
    [comm_id \in {communities[n] : n \in DOMAIN communities} |->
        {n \in DOMAIN communities : communities[n] = comm_id}]

\* np.percentile(complexities, q), linear interpolation, times 100 to stay
\* in the integers: the value at the virtual index (n - 1) * q / 100 of the
\* sorted list.
RankAscending(G, key, n) ==
    1 + Cardinality({m \in NodeSet(G) :
            key[m] < key[n] \/ (key[m] = key[n] /\ NodeIndex(G, m) < NodeIndex(G, n))})
Percentile100(G, key, q) ==
    LET n == Len(G.nodes)
        sorted == [k \in 1..n |-> key[CHOOSE x \in NodeSet(G) : RankAscending(G, key, x) = k]]
        lo == ((n - 1) * q) \div 100
        rem == ((n - 1) * q) % 100
        hi == IF lo + 1 < n THEN lo + 1 ELSE n - 1
    IN sorted[lo + 1] * 100 + rem * (sorted[hi + 1] - sorted[lo + 1])

\* GraphAnalyzer.find_god_classes
find_god_classes(G, threshold_percentile) ==
    IF G.nodes = <<>> THEN {}
    ELSE LET key == [n \in NodeSet(G) |-> G.attr[n].complexity]
             threshold100 == Percentile100(G, key, threshold_percentile)
         IN {n \in NodeSet(G) : key[n] * 100 >= threshold100}

\* DiagramData.get_namespaces (parser.py): the namespaces found in the
\* data, each once, in the order of their first element.
get_namespaces(d) ==
    LET firsts == {i \in DOMAIN d.elements :
                      \A j \in 1..(i - 1) : d.elements[j].namespace # d.elements[i].namespace}
        nth(k) == CHOOSE i \in firsts : Cardinality({j \in firsts : j < i}) = k - 1
    IN [k \in 1..Cardinality(firsts) |-> d.elements[nth(k)].namespace]

(***************************************************************************)
(* filter.py                                                               *)
(*                                                                         *)
(* A view name is the sequence of the pieces its f-string joins; every     *)
(* DiagramFilter method is an operator from the state it reads (graph,     *)
(* view store, analyzer caches) and its arguments to [ret, views, cache].  *)
(***************************************************************************)
\* An assignment that replaces the whole dict by the one entry.
MutPutAlone(store, view_name, nodes) == [k \in {view_name} |-> nodes]
\* self.views[view_name] = nodes
Put(store, view_name, nodes) ==
    [k \in DOMAIN store \cup {view_name} |-> IF k = view_name THEN nodes ELSE store[k]]

\* The name lookup of create_context_view (lines 57-61) and
\* _find_node_id_by_name: the id of the first node, in node order, whose name
\* or full_name is class_name, else None.
find_node_id_by_name(G, class_name) ==
    LET hits == {i \in DOMAIN G.nodes :
                    \/ G.attr[G.nodes[i]].name = class_name
                    \/ G.attr[G.nodes[i]].full_name = class_name}
    IN IF hits = {} THEN None
       ELSE Val(G.nodes[CHOOSE i \in hits : \A j \in hits : i <= j])

\* `not x` for an Optional[str]: None and the empty string are false.
Not(r) == IsNone(r) \/ r.val = ""

\* The neighbours alone, without the nodes they are neighbours of.
MutNeighborsOnly(G, base) == UNION {get_neighbors(G, n, "both") : n \in base}
\* {x} | neighbours of x, for every x of base (include_neighbors).
WithNeighbors(G, base) ==
    base \cup UNION {get_neighbors(G, n, "both") : n \in base}

ContextName(center_class_name, max_hops) ==
    <<"context_", center_class_name, "_h", ToString(max_hops)>>

\* DiagramFilter.create_context_view
create_context_view(G, store, c, center_class_name, max_hops, direction, view_name) ==
    LET center_id == find_node_id_by_name(G, center_class_name)
    IN IF Not(center_id)
       THEN [ret |-> Raise("ValueError"), views |-> store, cache |-> c]
       ELSE LET nodes == get_nodes_within_hops(G, center_id.val, max_hops, direction)
                name == IF IsNone(view_name)
                        THEN ContextName(center_class_name, max_hops)
                        ELSE view_name.val
            IN [ret |-> Val(nodes), views |-> Put(store, name, nodes), cache |-> c]

\* str.replace("::", "_") on a character sequence, left to right.
RECURSIVE ReplaceSeparators(_)
ReplaceSeparators(str) ==
    IF str = <<>> THEN <<>>
    ELSE IF Len(str) >= 2 /\ str[1] = ":" /\ str[2] = ":"
    THEN <<"_">> \o ReplaceSeparators(SubSeq(str, 3, Len(str)))
    ELSE <<str[1]>> \o ReplaceSeparators(Tail(str))

NamespaceName(ns) == <<"namespace_">> \o ReplaceSeparators(ns)

\* The loop of create_namespace_views (lines 93-100) from entry i on; acc is
\* [views, out], out being namespace_views.
RECURSIVE NamespaceLoop(_, _, _, _, _)
NamespaceLoop(G, acc, namespace_list, i, min_nodes) ==
    IF i > Len(namespace_list) THEN acc
    ELSE LET nodes == get_nodes_by_namespace(G, namespace_list[i])
             name == NamespaceName(namespace_list[i])
         IN NamespaceLoop(G,
                IF Cardinality(nodes) >= min_nodes
                THEN [views |-> Put(acc.views, name, nodes), out |-> Put(acc.out, name, nodes)]
                ELSE acc,
                namespace_list, i + 1, min_nodes)

\* DiagramFilter.create_namespace_views; namespace_list is None or a list.
create_namespace_views(G, d, store, c, namespace_list, min_nodes) ==
    LET list == IF IsNone(namespace_list) THEN get_namespaces(d) ELSE namespace_list.val
        done == NamespaceLoop(G, [views |-> store, out |-> <<>>], list, 1, min_nodes)
    IN [ret |-> Val(done.out), views |-> done.views, cache |-> c]

CommunityName(comm_id) == <<"community_", ToString(comm_id)>>

\* DiagramFilter.create_community_views; `computed` is what best_partition
\* returns for this resolution if the analyzer asks it.
create_community_views(G, store, c, min_community_size, computed) ==
    LET found == detect_communities(c, computed)
        again == detect_communities(found.cache, computed)
        community_members == get_community_members(again.ret)
        kept == {k \in DOMAIN community_members :
                    Cardinality(community_members[k]) >= min_community_size}
        named == [name \in {CommunityName(k) : k \in kept} |->
                     community_members[CHOOSE k \in kept : CommunityName(k) = name]]
    IN IF IsExc(found.ret)
       THEN [ret |-> found.ret, views |-> store, cache |-> c]
       ELSE [ret |-> Val(named),
             views |-> [name \in DOMAIN store \cup DOMAIN named |->
                           IF name \in DOMAIN named THEN named[name] ELSE store[name]],
             cache |-> again.cache]

\* DiagramFilter.create_hotspot_view
create_hotspot_view(G, store, c, min_degree, min_complexity, include_neighbors) ==
    LET found == find_hotspots(G, min_degree, min_complexity)
        hotspots == IF include_neighbors THEN WithNeighbors(G, found) ELSE found
    IN [ret |-> Val(hotspots), views |-> Put(store, <<"hotspot">>, hotspots), cache |-> c]

ImportanceName(metric, top_n) == <<"importance_", metric, "_top", ToString(top_n)>>

\* DiagramFilter.create_importance_view
create_importance_view(G, store, c, top_n, metric, include_neighbors, computed) ==
    LET top_nodes == get_top_nodes_by_metric(G, c, metric, top_n, computed)
    IN IF IsExc(top_nodes.ret)
       THEN [ret |-> top_nodes.ret, views |-> store, cache |-> top_nodes.cache]
       ELSE LET top == {top_nodes.ret.val[i][1] : i \in DOMAIN top_nodes.ret.val}
                important_nodes == IF include_neighbors THEN WithNeighbors(G, top) ELSE top
            IN [ret |-> Val(important_nodes),
                views |-> Put(store, ImportanceName(metric, top_n), important_nodes),
                cache |-> top_nodes.cache]

LayerName(layer_name) == <<"layer_", layer_name>>

\* The loop of create_layer_views over the (layer_name, pattern) items.
RECURSIVE LayerLoop(_, _, _, _)
LayerLoop(G, acc, layer_patterns, i) ==
    IF i > Len(layer_patterns) THEN acc
    ELSE LET nodes == get_nodes_by_namespace(G, layer_patterns[i][2])
             name == LayerName(layer_patterns[i][1])
         IN LayerLoop(G,
                IF nodes # {}
                THEN [views |-> Put(acc.views, name, nodes), out |-> Put(acc.out, name, nodes)]
                ELSE acc,
                layer_patterns, i + 1)

\* DiagramFilter.create_layer_views
create_layer_views(G, store, c, layer_patterns) ==
    LET done == LayerLoop(G, [views |-> store, out |-> <<>>], layer_patterns, 1)
    IN [ret |-> Val(done.out), views |-> done.views, cache |-> c]

DependencyName(start_class, end_class) == <<"dependency_", start_class, "_to_", end_class>>

\* Lines 235-238: the path nodes and what lies within expand_hops of them.
MutChainNodes(G, path, start_class, end_class, expand_hops) ==
    {start_class, end_class}
        \cup (IF expand_hops > 0
              THEN UNION {get_nodes_within_hops(G, path[i], expand_hops, "both") :
                             i \in DOMAIN path}
              ELSE {})
\* The path alone, whatever expand_hops is.
MutChainNodesPathOnly(G, path, start_class, end_class, expand_hops) == SeqToSet(path)
ChainNodes(G, path, start_class, end_class, expand_hops) ==
    SeqToSet(path)
        \cup (IF expand_hops > 0
              THEN UNION {get_nodes_within_hops(G, path[i], expand_hops, "both") :
                             i \in DOMAIN path}
              ELSE {})

\* DiagramFilter.create_dependency_chain_view
create_dependency_chain_view(G, store, c, start_class, end_class, expand_hops) ==
    LET start_id == find_node_id_by_name(G, start_class)
        end_id == find_node_id_by_name(G, end_class)
        absent == [ret |-> None, views |-> store, cache |-> c]
    IN IF Not(start_id) \/ Not(end_id) THEN absent
       ELSE LET path == find_shortest_path(G, start_id.val, end_id.val)
            IN IF IsNone(path) \/ (IsVal(path) /\ path.val = <<>>) THEN absent
               ELSE IF IsExc(path) THEN [ret |-> path, views |-> store, cache |-> c]
               ELSE LET nodes == ChainNodes(G, path.val, start_class, end_class, expand_hops)
                    IN [ret |-> Val(nodes),
                        views |-> Put(store, DependencyName(start_class, end_class), nodes),
                        cache |-> c]

\* DiagramFilter.create_god_class_view
create_god_class_view(G, store, c, threshold_percentile, include_neighbors) ==
    LET found == find_god_classes(G, threshold_percentile)
        god_classes == IF include_neighbors THEN WithNeighbors(G, found) ELSE found
    IN [ret |-> Val(god_classes), views |-> Put(store, <<"god_classes">>, god_classes),
        cache |-> c]

\* The defaults auto_create_views runs its strategies with.
DefaultMinNodes == 2
DefaultMinCommunitySize == 3
DefaultMinDegree == 5
DefaultMinComplexity == 10
AutoTopN == 15

\* list(ViewStrategy)
AllStrategies == <<"context", "namespace", "community", "hotspot", "importance", "layer">>

\* dict.update
Update(dict, other) ==
    [k \in DOMAIN dict \cup DOMAIN other |-> IF k \in DOMAIN other THEN other[k] ELSE dict[k]]

\* The element of a one-element set: a value worked out once and used in
\* several places is handed on through such a set.
TheOne(S) == CHOOSE x \in S : TRUE

\* The call auto_create_views makes for one strategy, on the store and cache
\* `acc` holds; an unknown strategy makes none.
AutoStrategy(G, d, acc, strategy, partition, scores) ==
    CASE strategy = "namespace" ->
            create_namespace_views(G, d, acc.views, acc.cache, None, DefaultMinNodes)
      [] strategy = "community" ->
            create_community_views(G, acc.views, acc.cache,
                                   DefaultMinCommunitySize, partition)
      [] strategy = "hotspot" ->
            create_hotspot_view(G, acc.views, acc.cache, DefaultMinDegree,
                                DefaultMinComplexity, TRUE)
      [] strategy = "importance" ->
            create_importance_view(G, acc.views, acc.cache, AutoTopN,
                                   "pagerank", TRUE, scores)
      [] OTHER -> [ret |-> None, views |-> acc.views, cache |-> acc.cache]

\* created_views after one strategy returned `result`: updated with the
\* views of a namespace or community call, given the key "hotspot" or
\* "importance_top15" for a non-empty single view, left alone otherwise.
AutoCreated(created, strategy, result) ==
    CASE IsExc(result) \/ IsNone(result) -> created
      [] strategy \in {"namespace", "community"} -> Update(created, result.val)
      [] strategy = "hotspot" ->
            IF result.val # {} THEN Put(created, <<"hotspot">>, result.val)
            ELSE created
      [] strategy = "importance" ->
            IF result.val # {} THEN Put(created, <<"importance_top15">>, result.val)
            ELSE created

\* One turn of the loop of auto_create_views (lines 317-340) on acc =
\* [views, cache, created]. An exception of the strategy is caught: what the
\* strategy did before it stays, created_views is left as it was.
AutoStep(G, d, acc, strategy, partition, scores) ==
    TheOne({[views |-> r.views, cache |-> r.cache,
             created |-> AutoCreated(acc.created, strategy, r.ret)] :
            r \in {AutoStrategy(G, d, acc, strategy, partition, scores)}})

\* The loop without its try/except: the first strategy that raises ends it.
RECURSIVE MutAutoLoop(_, _, _, _, _, _, _)
MutAutoLoop(G, d, acc, strategies, i, partition, scores) ==
    IF i > Len(strategies) THEN acc
    ELSE IF \/ strategies[i] = "community"
               /\ LibraryRaises(acc.cache, "communities", partition)
            \/ strategies[i] = "importance"
               /\ LibraryRaises(acc.cache, "pagerank", scores)
    THEN acc
    ELSE TheOne({MutAutoLoop(G, d, next, strategies, i + 1, partition, scores) :
                    next \in {AutoStep(G, d, acc, strategies[i], partition, scores)}})

RECURSIVE AutoLoop(_, _, _, _, _, _, _)
AutoLoop(G, d, acc, strategies, i, partition, scores) ==
    IF i > Len(strategies) THEN acc
    ELSE TheOne({AutoLoop(G, d, next, strategies, i + 1, partition, scores) :
                    next \in {AutoStep(G, d, acc, strategies[i], partition, scores)}})

\* DiagramFilter.auto_create_views; strategies is None or a list.
auto_create_views(G, d, store, c, strategies, partition, scores) ==
    LET list == IF IsNone(strategies) THEN AllStrategies ELSE strategies.val
    IN TheOne({[ret |-> Val(done.created), views |-> done.views, cache |-> done.cache] :
               done \in {AutoLoop(G, d, [views |-> store, cache |-> c, created |-> <<>>],
                                  list, 1, partition, scores)}})

\* Returning the builder's own graph object instead of a copy.
MutSubgraphNoCopy(G, nodes) ==
    [object |-> "self.graph", nodes |-> G.nodes, attr |-> G.attr, edge |-> G.edge]

\* GraphBuilder.get_subgraph_by_nodes: graph.subgraph(nodes).copy(), the
\* nodes of the graph that are in `nodes` with their attributes and the
\* edges between them. The result is a reference: `object` tells which
\* graph object it points to, the builder's ("self.graph") or a new one
\* ("copy"); the other fields are that object's content.
get_subgraph_by_nodes(G, nodes) ==
    LET keep(n) == n \in nodes
        kept == SelectSeq(G.nodes, keep)
    IN [object |-> "copy",
        nodes |-> kept,
        attr |-> [n \in SeqToSet(kept) |-> G.attr[n]],
        edge |-> [e \in {x \in EdgeSet(G) : x[1] \in nodes /\ x[2] \in nodes} |-> G.edge[e]]]

\* nx.density of a directed graph: m / (n (n - 1)), and 0 without edges or
\* with at most one node.
density(G) ==
    LET n == Len(G.nodes)
        m == Cardinality(EdgeSet(G))
    IN IF m = 0 \/ n <= 1 THEN Zero ELSE Ratio(m, n * (n - 1))

\* DiagramFilter.get_view_statistics; `if not nodes` is true for a missing
\* view (None) and for a stored empty set.
get_view_statistics(G, store, c, view_name) ==
    LET nodes == IF view_name \in DOMAIN store THEN Val(store[view_name]) ELSE None
    IN IF IsNone(nodes) \/ nodes.val = {}
       THEN [ret |-> None, views |-> store, cache |-> c]
       ELSE LET subgraph == get_subgraph_by_nodes(G, nodes.val)
            IN [ret |-> Val([view_name |-> view_name,
                             node_count |-> Cardinality(nodes.val),
                             edge_count |-> Cardinality(EdgeSet(subgraph)),
                             density |-> IF Cardinality(nodes.val) > 1
                                         THEN density(subgraph) ELSE Zero,
                             nodes |-> {[id |-> n, name |-> G.attr[n].name,
                                         full_name |-> G.attr[n].full_name] :
                                            n \in nodes.val}]),
                views |-> store, cache |-> c]

(***************************************************************************)
(* What the libraries may hand back.                                       *)
(***************************************************************************)
\* nx.pagerank / nx.betweenness_centrality: one score per node. The values
\* are not computed here; any assignment of two score levels is allowed,
\* which gives every tie pattern and every choice of a top node.
LibScores == {0, 1}
ScoreOutcomes(G) ==
    {[n \in NodeSet(G) |-> Ratio(f[n], 1)] : f \in [NodeSet(G) -> LibScores]}

\* Undirected adjacency of graph.to_undirected().
Linked(G, a, b) == <<a, b>> \in EdgeSet(G) \/ <<b, a>> \in EdgeSet(G)
ConnectedBlock(G, block) ==
    \A part \in (SUBSET block) \ {{}, block} :
        \E a \in part, b \in block \ part : Linked(G, a, b)

\* community_louvain.best_partition: node -> community id, ids 0..k-1.
\* Without edges every node is its own community, numbered in node order.
\* Otherwise the result depends on the library's random visiting order: any
\* numbering of any partition into connected groups is allowed.
PartitionOutcomes(G) ==
    IF EdgeSet(G) = {}
    THEN {[n \in NodeSet(G) |-> NodeIndex(G, n) - 1]}
    ELSE {f \in [NodeSet(G) -> 0..(Len(G.nodes) - 1)] :
            /\ \A k \in 0..(Len(G.nodes) - 1) :
                  (\E n \in NodeSet(G) : f[n] = k)
                      => \A j \in 0..k : \E m \in NodeSet(G) : f[m] = j
            /\ \A k \in 0..(Len(G.nodes) - 1) :
                  ConnectedBlock(G, {n \in NodeSet(G) : f[n] = k})}

(***************************************************************************)
(* Inputs and operations of the view filter.                               *)
(***************************************************************************)
NsAB == <<"a", ":", ":", "b">>          \* a::b
NsAB2 == <<"a", ":", ":", "b", "2">>    \* a::b2
NsA_B == <<"a", "_", "b">>              \* a_b

\* Three classes: two share the name X, one has the empty id.
FilterElements ==
    << [id |-> "A", name |-> "X", full_name |-> "p::X", namespace |-> NsAB,
        complexity |-> 3],
       [id |-> "B", name |-> "X", full_name |-> "q::X", namespace |-> NsAB2,
        complexity |-> 10],
       [id |-> "", name |-> "Y", full_name |-> "p::Y", namespace |-> NsA_B,
        complexity |-> 12] >>

Dep(a, b) == [source |-> a, destination |-> b, type |-> "dependency"]
\* Relationship lists: the prefixes of this list, which give in turn no
\* edge, one edge, a two-cycle beside an isolated class, a chain into the
\* cycle, and a hub of total degree 5 with a self-loop.
FilterRelPool == <<Dep("B", ""), Dep("", "B"), Dep("A", "B"), Dep("B", "B")>>
FilterRelLists == {SubSeq(FilterRelPool, 1, k) : k \in 0..Len(FilterRelPool)}

InitFilter ==
    /\ \E rels \in FilterRelLists :
          data = [elements |-> FilterElements, relationships |-> rels]
    /\ Fresh

ContextArgs ==
    [center_class_name : {"X", "Y", "Z"}, max_hops : {1}, direction : {"both"},
     view_name : {None}]
    \cup [center_class_name : {"q::X"}, max_hops : {1}, direction : {"out"},
          view_name : {Val(<<"hotspot">>)}]
NamespaceArgs == [namespace_list : {None, Val(<<NsAB, NsA_B>>)}, min_nodes : {1, 2}]
CommunityArgs == [min_community_size : {1}, resolution : {1, 2}]
HotspotArgs ==
    [min_degree : {1, DefaultMinDegree}, min_complexity : {DefaultMinComplexity},
     include_neighbors : {TRUE}]
    \cup [min_degree : {1}, min_complexity : {DefaultMinComplexity},
          include_neighbors : {FALSE}]
ImportanceArgs ==
    [top_n : {1}, metric : {"pagerank", "degree", "fan_in"}, include_neighbors : {TRUE}]
    \cup [top_n : {0, 1}, metric : {"degree"}, include_neighbors : {FALSE}]
LayerArgs == [layer_patterns : {<< <<"core", NsAB>>, <<"ui", <<"z">>>> >>}]
DependencyArgs ==
    [start_class : {"p::X"}, end_class : {"q::X", "Y", "Z"}, expand_hops : {0, 1}]
GodClassArgs == [threshold_percentile : {90}, include_neighbors : BOOLEAN]
AutoArgs == [strategies : {None}]

CallOf(op, args) == [op |-> op, args |-> args]

\* A DiagramFilter method runs to its end: r is its [ret, views, cache].
Invoke(op, args, r) ==
    /\ call' = CallOf(op, args)
    /\ ret' = r.ret
    /\ views' = r.views
    /\ cache' = r.cache
    /\ ncalls' = ncalls + 1
    /\ UNCHANGED <<data, graph, pc, last, threads>>

Ready == Idle /\ ncalls < MaxCalls

\* What the library would compute now, asked only with an empty cache.
IfAsked(metric, outcomes) == IF IsNone(cache[metric]) THEN outcomes ELSE {<<>>}

FilterReturn ==
    /\ pc = "built"
    /\ call # NoCall
    /\ last' = [call |-> call, ret |-> ret, views |-> views]
    /\ call' = NoCall
    /\ ret' = None
    /\ UNCHANGED <<data, graph, pc, cache, views, ncalls, threads>>

CreateContextView ==
    /\ Ready
    /\ \E a \in ContextArgs :
          Invoke("create_context_view", a,
                 create_context_view(graph, views, cache, a.center_class_name,
                                     a.max_hops, a.direction, a.view_name))

CreateNamespaceViews ==
    /\ Ready
    /\ \E a \in NamespaceArgs :
          Invoke("create_namespace_views", a,
                 create_namespace_views(graph, data, views, cache,
                                        a.namespace_list, a.min_nodes))

CreateCommunityViews ==
    /\ Ready
    /\ \E a \in CommunityArgs, partition \in IfAsked("communities", PartitionOutcomes(graph)) :
          Invoke("create_community_views", a,
                 create_community_views(graph, views, cache, a.min_community_size,
                                        partition))

CreateHotspotView ==
    /\ Ready
    /\ \E a \in HotspotArgs :
          Invoke("create_hotspot_view", a,
                 create_hotspot_view(graph, views, cache, a.min_degree,
                                     a.min_complexity, a.include_neighbors))

CreateImportanceView ==
    /\ Ready
    /\ \E a \in ImportanceArgs :
          \E scores \in IF a.metric \in {"pagerank", "betweenness"}
                         THEN IfAsked(a.metric, ScoreOutcomes(graph)) ELSE {<<>>} :
              Invoke("create_importance_view", a,
                     create_importance_view(graph, views, cache, a.top_n, a.metric,
                                            a.include_neighbors, scores))

CreateLayerViews ==
    /\ Ready
    /\ \E a \in LayerArgs :
          Invoke("create_layer_views", a,
                 create_layer_views(graph, views, cache, a.layer_patterns))

CreateDependencyChainView ==
    /\ Ready
    /\ \E a \in DependencyArgs :
          Invoke("create_dependency_chain_view", a,
                 create_dependency_chain_view(graph, views, cache, a.start_class,
                                              a.end_class, a.expand_hops))

CreateGodClassView ==
    /\ Ready
    /\ \E a \in GodClassArgs :
          Invoke("create_god_class_view", a,
                 create_god_class_view(graph, views, cache, a.threshold_percentile,
                                       a.include_neighbors))

AutoCreateViews ==
    /\ Ready
    /\ \E a \in AutoArgs,
          partition \in IfAsked("communities", PartitionOutcomes(graph)),
          scores \in IfAsked("pagerank", ScoreOutcomes(graph)) :
          Invoke("auto_create_views", a,
                 auto_create_views(graph, data, views, cache, a.strategies,
                                   partition, scores))

NextFilter ==
    \/ Construct
    \/ CreateContextView
    \/ CreateNamespaceViews
    \/ CreateCommunityViews
    \/ CreateHotspotView
    \/ CreateImportanceView
    \/ CreateLayerViews
    \/ CreateDependencyChainView
    \/ CreateGodClassView
    \/ AutoCreateViews
    \/ FilterReturn

SpecFilter == InitFilter /\ [][NextFilter]_vars

(***************************************************************************)
(* View filter: the view store (claims C9-C10, under SpecFilter).          *)
(***************************************************************************)
StrategyOps ==
    {"create_context_view", "create_namespace_views", "create_community_views",
     "create_hotspot_view", "create_importance_view", "create_layer_views",
     "create_dependency_chain_view", "create_god_class_view"}

\* The operation that has just run is the one that returned before it, with
\* the same arguments.
Repeated == call.op \in StrategyOps /\ last.call.op = call.op /\ last.call = call

\* C9: when one of the eight strategies is called a second time with the
\* same arguments, the view store after the second call equals the store
\* after the first, and the second call returns what the first returned.
C9_StrategyIdempotent ==
    Repeated => views = last.views /\ ret = last.ret

\* A community view built twice on a graph where the library could have
\* answered with more than one partition.
C9_Witness ==
    /\ Repeated
    /\ call.op = "create_community_views"
    /\ Cardinality(PartitionOutcomes(graph)) > 1
    /\ IsVal(ret) /\ DOMAIN ret.val # {}
    /\ views = last.views

\* C10: every node set in the view store is a subset of the graph's nodes.
C10_ViewsWithinGraph ==
    \A name \in DOMAIN views : views[name] \subseteq NodeSet(graph)

\* A dependency-chain view holding the whole graph, stored after another
\* strategy has stored its own views.
C10_Witness ==
    /\ call.op = "create_dependency_chain_view"
    /\ IsVal(ret)
    /\ DependencyName(call.args.start_class, call.args.end_class) \in DOMAIN views
    /\ views[DependencyName(call.args.start_class, call.args.end_class)] = NodeSet(graph)
    /\ Cardinality(DOMAIN views) >= 3

(***************************************************************************)
(* A session with the builder, the analyzer and the filter together: the   *)
(* operations SpecFilter leaves out, and libraries that may fail.          *)
(***************************************************************************)
\* An exception out of networkx or python-louvain: no convergence of the
\* power iteration, a missing optional dependency.
LibraryFailure == Raise("LibraryError")

\* What the library does when asked with an empty cache: it gives one of
\* its answers, or it raises.
AnswerOrFailure(metric, outcomes) ==
    IF IsNone(cache[metric])
    THEN {CHOOSE answer \in outcomes : TRUE, LibraryFailure}
    ELSE {<<>>}

SessionAutoArgs == [strategies : {None, Val(<<"importance", "namespace">>)}]

\* auto_create_views, with libraries that may fail
AutoCreateViewsLibrary ==
    /\ Ready
    /\ \E a \in SessionAutoArgs,
          partition \in AnswerOrFailure("communities", PartitionOutcomes(graph)),
          scores \in AnswerOrFailure("pagerank", ScoreOutcomes(graph)) :
          Invoke("auto_create_views", a,
                 auto_create_views(graph, data, views, cache, a.strategies,
                                   partition, scores))

StatisticsArgs ==
    [view_name : {<<"hotspot">>, NamespaceName(NsAB), NamespaceName(NsAB2)}]

GetViewStatistics ==
    /\ Ready
    /\ \E a \in StatisticsArgs :
          Invoke("get_view_statistics", a,
                 get_view_statistics(graph, views, cache, a.view_name))

ResolutionArgs == [resolution : {1, 2}]

\* GraphAnalyzer.detect_communities(resolution)
DetectCommunities ==
    /\ Ready
    /\ \E a \in ResolutionArgs, partition \in IfAsked("communities", PartitionOutcomes(graph)) :
          LET found == detect_communities(cache, partition)
          IN Invoke("detect_communities", a,
                    [ret |-> Val(found.ret), views |-> views, cache |-> found.cache])

TopNodesArgs ==
    [metric : {"pagerank"}, top_n : {2, 4}]
    \cup [metric : {"in_degree"}, top_n : {0, 2}]
    \cup [metric : {"fan_in"}, top_n : {2}]

\* GraphAnalyzer.get_top_nodes_by_metric
GetTopNodesByMetric ==
    /\ Ready
    /\ \E a \in TopNodesArgs :
          \E scores \in IF a.metric \in {"pagerank", "betweenness"}
                         THEN IfAsked(a.metric, ScoreOutcomes(graph)) ELSE {<<>>} :
              LET top == get_top_nodes_by_metric(graph, cache, a.metric, a.top_n, scores)
              IN Invoke("get_top_nodes_by_metric", a,
                        [ret |-> top.ret, views |-> views, cache |-> top.cache])

SubgraphArgs == [node_ids : {{"A", "B"}, {"B", "", "Z"}}]

\* GraphBuilder.get_subgraph_by_nodes
GetSubgraphByNodes ==
    /\ Ready
    /\ \E a \in SubgraphArgs :
          Invoke("get_subgraph_by_nodes", a,
                 [ret |-> Val(get_subgraph_by_nodes(graph, a.node_ids)),
                  views |-> views, cache |-> cache])

\* nx.Graph.clear() on the graph object a reference points to
Cleared(ref) == [ref EXCEPT !.nodes = <<>>, !.attr = <<>>, !.edge = <<>>]

\* The caller of get_subgraph_by_nodes empties the graph it was handed. The
\* builder's graph changes with it only if it is the same object.
ModifySubgraph ==
    /\ pc = "built"
    /\ IsCall("get_subgraph_by_nodes")
    /\ IsVal(ret) /\ ret.val.nodes # <<>>
    /\ ret' = Val(Cleared(ret.val))
    /\ graph' = IF ret.val.object = "self.graph"
                THEN [nodes |-> <<>>, attr |-> <<>>, edge |-> <<>>]
                ELSE graph
    /\ UNCHANGED <<data, pc, call, filterVars>>

NextSession ==
    \/ Construct
    \/ GetSubgraphByNodes
    \/ ModifySubgraph
    \/ GetTopNodesByMetric
    \/ AutoCreateViewsLibrary
    \/ GetViewStatistics
    \/ DetectCommunities
    \/ CreateCommunityViews
    \/ FilterReturn

SpecSession == InitFilter /\ [][NextSession]_vars

(***************************************************************************)
(* AutoCreate (claims C11 under SpecSession, C12 under SpecFilter).        *)
(***************************************************************************)
AutoList == IF IsNone(call.args.strategies) THEN AllStrategies ELSE call.args.strategies.val
Asked(strategy) == \E i \in DOMAIN AutoList : AutoList[i] = strategy
DiscoveredNamespaces == {data.elements[i].namespace : i \in DOMAIN data.elements}
PrefixMatches(ns) == {n \in NodeSet(graph) : StartsWith(graph.attr[n].namespace, ns)}
OwnNodes(ns) == {n \in NodeSet(graph) : graph.attr[n].namespace = ns}

\* C11: auto_create_views never raises. Whatever strategy failed, the views
\* that were in the store before the call are still there, and every
\* strategy of the list that did not fail has run: the namespace views are
\* stored and returned, the hotspot view is stored, the importance view is
\* stored when the ranking was obtained, and so are the community views when
\* the partition was obtained.
C11_AutoCreateDegrades ==
    IsCall("auto_create_views") =>
        /\ IsVal(ret)
        /\ DOMAIN last.views \subseteq DOMAIN views
        /\ Asked("namespace") =>
              \A ns \in DiscoveredNamespaces :
                  Cardinality(PrefixMatches(ns)) >= DefaultMinNodes
                      => NamespaceName(ns) \in DOMAIN views \cap DOMAIN ret.val
        /\ Asked("hotspot") => <<"hotspot">> \in DOMAIN views
        /\ Asked("importance") /\ IsVal(cache.pagerank)
              => ImportanceName("pagerank", AutoTopN) \in DOMAIN views
        /\ Asked("community") /\ IsVal(cache.communities)
              => \A k \in {cache.communities.val[n] : n \in NodeSet(graph)} :
                    Cardinality({n \in NodeSet(graph) : cache.communities.val[n] = k})
                            >= DefaultMinCommunitySize
                        => CommunityName(k) \in DOMAIN views \cap DOMAIN ret.val

\* The community strategy failed in the middle of the default list: the
\* namespace view made before it is returned, the hotspot and importance
\* views made after it are stored.
C11_Witness ==
    /\ IsCall("auto_create_views")
    /\ IsNone(call.args.strategies)
    /\ IsNone(cache.communities)
    /\ IsVal(ret) /\ NamespaceName(NsAB) \in DOMAIN ret.val
    /\ <<"hotspot">> \in DOMAIN views /\ views[<<"hotspot">>] # {}
    /\ ImportanceName("pagerank", AutoTopN) \in DOMAIN views

DefaultAuto == IsCall("auto_create_views") /\ IsNone(call.args.strategies)
NamespaceNamesIn(dict) == {name \in DOMAIN dict : name[1] = "namespace_"}
HotNodes ==
    {n \in NodeSet(graph) :
        /\ Cardinality(EdgesInto(n)) + Cardinality(EdgesOutOf(n)) >= DefaultMinDegree
        /\ graph.attr[n].complexity >= DefaultMinComplexity}

\* C12 (as claimed): after auto_create_views() no namespace that holds
\* exactly one node has a namespace view in the result or in the store, and
\* the hotspot and importance views are there when nodes qualify.
C12_SingletonNamespaceNoView ==
    DefaultAuto =>
        /\ \A ns \in DiscoveredNamespaces :
              Cardinality(OwnNodes(ns)) = 1
                  => /\ NamespaceName(ns) \notin DOMAIN ret.val
                     /\ NamespaceName(ns) \notin DOMAIN views
        /\ HotNodes # {} => <<"hotspot">> \in DOMAIN views
        /\ ImportanceName("pagerank", AutoTopN) \in DOMAIN views

\* The namespaces that get a view: those whose name begins the namespace
\* string of at least min_nodes nodes.
Qualifying == {ns \in DiscoveredNamespaces : Cardinality(PrefixMatches(ns)) >= DefaultMinNodes}

\* C12 (amended): after auto_create_views() the namespace views of the
\* result are exactly the views named after the namespaces whose prefix
\* match has at least two nodes, each holding the prefix match of such a
\* namespace, in the result and in the store alike; the hotspot view is
\* stored, and returned when it is not empty; the importance view is stored.
C12_NamespaceViewsByPrefix ==
    DefaultAuto =>
        /\ NamespaceNamesIn(ret.val) = {NamespaceName(ns) : ns \in Qualifying}
        /\ \A name \in NamespaceNamesIn(ret.val) :
              /\ \E ns \in Qualifying :
                    NamespaceName(ns) = name /\ ret.val[name] = PrefixMatches(ns)
              /\ name \in DOMAIN views /\ views[name] = ret.val[name]
        /\ <<"hotspot">> \in DOMAIN views
        /\ HotNodes \subseteq views[<<"hotspot">>]
        /\ <<"hotspot">> \in DOMAIN ret.val <=> HotNodes # {}
        /\ ImportanceName("pagerank", AutoTopN) \in DOMAIN views

\* Namespace a::b holds one class and still gets a view, because the
\* namespace a::b2 of another class begins with its name; the hotspot view
\* is returned and the importance view is stored.
C12_Witness ==
    /\ DefaultAuto
    /\ Cardinality(OwnNodes(NsAB)) = 1
    /\ NamespaceName(NsAB) \in DOMAIN ret.val
    /\ ret.val[NamespaceName(NsAB)] = OwnNodes(NsAB) \cup OwnNodes(NsAB2)
    /\ <<"hotspot">> \in DOMAIN ret.val
    /\ ImportanceName("pagerank", AutoTopN) \in DOMAIN views

(***************************************************************************)
(* View statistics (claim C13, under SpecSession).                         *)
(***************************************************************************)
InducedEdges(nodes) == {e \in EdgeSet(graph) : e[1] \in nodes /\ e[2] \in nodes}

\* C13 (as claimed): get_view_statistics returns None exactly when the name
\* is not a key of the view store; for every stored view, an empty one
\* included, it returns a record with the size of the set, the number of
\* graph edges inside the set, and density 0 below two nodes.
C13_StatisticsForStoredViews ==
    IsCall("get_view_statistics") =>
        /\ IsNone(ret) <=> call.args.view_name \notin DOMAIN views
        /\ call.args.view_name \in DOMAIN views =>
              /\ IsVal(ret)
              /\ ret.val.node_count = Cardinality(views[call.args.view_name])
              /\ ret.val.edge_count = Cardinality(InducedEdges(views[call.args.view_name]))
              /\ Cardinality(views[call.args.view_name]) < 2 => ret.val.density.num = 0

(***************************************************************************)
(* Views looked up by class name (claims C14-C16, under SpecFilter).       *)
(***************************************************************************)
\* The nodes whose name or full name is class_name, and the one a lookup
\* resolves the name to: the first of them in node order.
NameMatches(class_name) ==
    {n \in NodeSet(graph) :
        graph.attr[n].name = class_name \/ graph.attr[n].full_name = class_name}
Resolved(class_name) ==
    CHOOSE n \in NameMatches(class_name) :
        \A m \in NameMatches(class_name) : NodeIndex(graph, n) <= NodeIndex(graph, m)
ContextStoredAs ==
    IF IsNone(call.args.view_name)
    THEN ContextName(call.args.center_class_name, call.args.max_hops)
    ELSE call.args.view_name.val

\* C14 (as claimed): create_context_view raises its not-found error exactly
\* when no node has the requested name or full name, and then leaves the
\* view store as it was; whenever a node matches, whatever its id, the call
\* returns the hop set of a matching node and stores it under the view name.
C14_ContextNotFoundIffNoMatch ==
    IsCall("create_context_view") =>
        /\ IsExc(ret) <=> NameMatches(call.args.center_class_name) = {}
        /\ IsExc(ret) => ret.exc = "ValueError" /\ views = last.views
        /\ NameMatches(call.args.center_class_name) # {} =>
              /\ IsVal(ret)
              /\ \E m \in NameMatches(call.args.center_class_name) :
                    ret.val = get_nodes_within_hops(graph, m, call.args.max_hops,
                                                    call.args.direction)
              /\ ContextStoredAs \in DOMAIN views
              /\ views[ContextStoredAs] = ret.val

ChainStart == Resolved(call.args.start_class)
ChainEnd == Resolved(call.args.end_class)
ChainUnresolved ==
    NameMatches(call.args.start_class) = {} \/ NameMatches(call.args.end_class) = {}
ChainStoredAs == DependencyName(call.args.start_class, call.args.end_class)

\* C15 (as claimed): create_dependency_chain_view never raises; it returns
\* None and leaves the view store as it was when the start or the end name
\* matches no node or when the end node cannot be reached from the start
\* node; in every other case it stores a view and returns it.
C15_ChainAbsentIffUnresolvedOrUnreachable ==
    IsCall("create_dependency_chain_view") =>
        /\ ~IsExc(ret)
        /\ IsNone(ret) => views = last.views
        /\ IsNone(ret) <=>
              \/ ChainUnresolved
              \/ PathsBetween(graph, ChainStart, ChainEnd) = {}
        /\ IsVal(ret) => ChainStoredAs \in DOMAIN views /\ views[ChainStoredAs] = ret.val

ShortestPaths(s, t) ==
    {p \in PathsBetween(graph, s, t) : \A q \in PathsBetween(graph, s, t) : Len(p) <= Len(q)}
Surroundings(p, hops) ==
    UNION {get_nodes_within_hops(graph, p[i], hops, "both") : i \in DOMAIN p}

CommunityViewsOf(partition, min_size) ==
    LET big == {k \in {partition[n] : n \in DOMAIN partition} :
                   Cardinality({n \in DOMAIN partition : partition[n] = k}) >= min_size}
    IN [name \in {CommunityName(k) : k \in big} |->
           {n \in DOMAIN partition :
               CommunityName(partition[n]) = name}]

\* C17: once the partition is cached no step changes it; a call of
\* detect_communities, with any resolution, returns the cached partition,
\* which is the one of the first call; create_community_views, with any
\* resolution, builds its views from that partition.
C17_FirstPartitionWins ==
    [][/\ IsVal(cache.communities) => cache'.communities = cache.communities
       /\ call'.op = "detect_communities" =>
             /\ IsVal(ret') /\ ret'.val = cache'.communities.val
             /\ IsVal(cache.communities) => ret'.val = cache.communities.val
       /\ call'.op = "create_community_views" =>
             /\ IsVal(ret')
             /\ ret'.val = CommunityViewsOf(cache'.communities.val,
                                            call'.args.min_community_size)
             /\ IsVal(cache.communities) =>
                   ret'.val = CommunityViewsOf(cache.communities.val,
                                               call'.args.min_community_size)]_vars

\* Community views asked with resolution 2 after detect_communities ran
\* with resolution 1, on a graph the library can split in more than one
\* way: the views are those of the first call's partition.
C17_Witness ==
    /\ IsCall("create_community_views")
    /\ last.call.op = "detect_communities"
    /\ last.call.args.resolution # call.args.resolution
    /\ Cardinality(PartitionOutcomes(graph)) > 1
    /\ IsVal(ret) /\ ret.val = CommunityViewsOf(last.ret.val, call.args.min_community_size)
    /\ DOMAIN ret.val # {}

(***************************************************************************)
(* Callers that run a cached analyzer method at the same time.             *)
(*                                                                         *)
(* calculate_pagerank, calculate_betweenness_centrality and                *)
(* detect_communities have the same three statements: test the cache field *)
(* for None, assign it the library's answer, return the field. The code    *)
(* takes no lock, so between any two of these steps (and between the       *)
(* library's answer and its assignment) another caller may run.            *)
(***************************************************************************)
CachedMetrics == {"pagerank", "betweenness", "communities"}

\* What the library answers for a metric: nx.pagerank and
\* nx.betweenness_centrality give the same scores every time they are asked
\* about the same graph, best_partition draws its visiting order at random.
LibraryAnswers(metric) ==
    IF metric = "communities"
    THEN PartitionOutcomes(graph)
    ELSE {CHOOSE scores \in ScoreOutcomes(graph) : TRUE}

\* The callers enter the method for the same metric.
Enter ==
    /\ Idle
    /\ threads = NoThreads
    /\ \E metric \in CachedMetrics :
          threads' = [t \in 1..NumCallers |->
                         [at |-> "check", metric |-> metric, computed |-> None,
                          ret |-> None]]
    /\ UNCHANGED <<data, graph, pc, call, ret, cache, views, last, ncalls>>

Step(t, next) ==
    /\ threads' = [threads EXCEPT ![t] = next]
    /\ UNCHANGED <<data, graph, pc, call, ret, views, last, ncalls>>

\* `if self._cache is None`
CheckCache(t) ==
    /\ threads[t].at = "check"
    /\ Step(t, [threads[t] EXCEPT
                   !.at = IF IsNone(cache[threads[t].metric]) THEN "compute" ELSE "return"])
    /\ UNCHANGED cache

\* the library call on the right of the assignment
Compute(t) ==
    /\ threads[t].at = "compute"
    /\ \E answer \in LibraryAnswers(threads[t].metric) :
          Step(t, [threads[t] EXCEPT !.at = "write", !.computed = Val(answer)])
    /\ UNCHANGED cache

\* `self._cache = ...`
WriteCache(t) ==
    /\ threads[t].at = "write"
    /\ cache' = [cache EXCEPT ![threads[t].metric] = threads[t].computed]
    /\ Step(t, [threads[t] EXCEPT !.at = "return"])

\* `return self._cache`
ReturnCache(t) ==
    /\ threads[t].at = "return"
    /\ Step(t, [threads[t] EXCEPT !.at = "done", !.ret = cache[threads[t].metric]])
    /\ UNCHANGED cache

NextConcurrent ==
    \/ Construct
    \/ Return
    \/ Enter
    \/ \E t \in DOMAIN threads : CheckCache(t)
    \/ \E t \in DOMAIN threads : Compute(t)
    \/ \E t \in DOMAIN threads : WriteCache(t)
    \/ \E t \in DOMAIN threads : ReturnCache(t)

SpecConcurrent == InitFilter /\ [][NextConcurrent]_vars

(***************************************************************************)
(* Claim C18, under SpecConcurrent.                                        *)
(***************************************************************************)
Computations == {t \in DOMAIN threads : IsVal(threads[t].computed)}
Returned == {t \in DOMAIN threads : threads[t].at = "done"}

\* C18 (as claimed): when callers reach the same cached metric together for
\* the first time, the library computation runs at most once and all
\* callers are handed the same value, in every interleaving.
C18_ComputeOnce ==
    /\ Cardinality(Computations) <= 1
    /\ \A t \in Returned, u \in Returned : threads[t].ret = threads[u].ret

(***************************************************************************)
(* Ranking (claim C19, under SpecSession).                                 *)
(***************************************************************************)
\* The score of a node under the metric of the call, as a ratio.
MetricScore(metric, n) ==
    CASE metric \in {"pagerank", "betweenness"} -> cache[metric].val[n]
      [] metric = "degree" ->
            Ratio(Cardinality(EdgesInto(n)) + Cardinality(EdgesOutOf(n)),
                  Cardinality(NodeSet(graph)) - 1)
      [] metric = "in_degree" -> Ratio(Cardinality(EdgesInto(n)), 1)
      [] metric = "out_degree" -> Ratio(Cardinality(EdgesOutOf(n)), 1)
AtLeast(r, q) == r.num * q.den >= q.num * r.den
TopReturned == {ret.val[i][1] : i \in DOMAIN ret.val}

\* C19: for a known metric and n >= 0, get_top_nodes_by_metric returns
\* min(n, number of nodes) pairs of distinct nodes with their scores, in
\* non-increasing score order, no node left out scoring higher than a node
\* returned, and the same sequence when the same call is repeated; for an
\* unknown metric it raises a ValueError whose message holds the name.
C19_TopByMetric ==
    IsCall("get_top_nodes_by_metric") =>
        IF call.args.metric \in Metrics
        THEN /\ IsVal(ret)
             /\ Len(ret.val) = IF call.args.top_n < Cardinality(NodeSet(graph))
                               THEN call.args.top_n ELSE Cardinality(NodeSet(graph))
             /\ Cardinality(TopReturned) = Len(ret.val)
             /\ \A i \in DOMAIN ret.val :
                   /\ ret.val[i][1] \in NodeSet(graph)
                   /\ ret.val[i][2] = MetricScore(call.args.metric, ret.val[i][1])
             /\ \A i \in DOMAIN ret.val, j \in DOMAIN ret.val :
                   i < j => AtLeast(ret.val[i][2], ret.val[j][2])
             /\ \A n \in TopReturned, m \in NodeSet(graph) \ TopReturned :
                   AtLeast(MetricScore(call.args.metric, n),
                           MetricScore(call.args.metric, m))
             /\ last.call = call => ret = last.ret
        ELSE /\ IsExc(ret) /\ ret.exc = "ValueError"
             /\ \E i \in DOMAIN ret.msg : ret.msg[i] = call.args.metric

\* The top two by importance asked twice while all three classes have the
\* same score: the tie is cut the same way both times.
C19_Witness ==
    /\ IsCall("get_top_nodes_by_metric")
    /\ last.call = call
    /\ call.args.metric = "pagerank" /\ call.args.top_n = 2
    /\ IsVal(ret) /\ Len(ret.val) = 2 /\ ret = last.ret
    /\ \A n \in NodeSet(graph), m \in NodeSet(graph) :
          MetricScore("pagerank", n) = MetricScore("pagerank", m)

(***************************************************************************)
(* The graph after construction (claim C20, under SpecSession).            *)
(***************************************************************************)
\* C20: once the builder has built the graph, no operation of the builder,
\* the analyzer or the filter changes its nodes, its edges or their
\* attributes, and emptying the graph handed back by get_subgraph_by_nodes
\* leaves it as it was, that graph being a copy.
C20_GraphReadOnly ==
    [][Built => graph' = graph]_vars

\* The caller has emptied the subgraph it got for classes that have an
\* edge between them, and the builder's graph still has all it was built
\* with.
C20_Witness ==
    /\ IsCall("get_subgraph_by_nodes")
    /\ IsVal(ret) /\ ret.val.nodes = <<>>
    /\ InducedEdges(call.args.node_ids) # {}
    /\ graph = build_graph(data)

(***************************************************************************)
(* The view store over a sequence of calls (claim C21, under SpecFilter).  *)
(***************************************************************************)
\* The names a call of the filter writes under: the name its f-string
\* derives from the arguments (or the view_name it was given), for each
\* namespace, community or layer it goes through.
Derives(c, name) ==
    CASE c.op = "create_context_view" ->
            name = (IF IsNone(c.args.view_name)
                    THEN ContextName(c.args.center_class_name, c.args.max_hops)
                    ELSE c.args.view_name.val)
      [] c.op = "create_namespace_views" ->
            IF IsNone(c.args.namespace_list)
            THEN \E ns \in DiscoveredNamespaces : name = NamespaceName(ns)
            ELSE \E i \in DOMAIN c.args.namespace_list.val :
                    name = NamespaceName(c.args.namespace_list.val[i])
      [] c.op = "create_community_views" -> name[1] = "community_"
      [] c.op = "create_hotspot_view" -> name = <<"hotspot">>
      [] c.op = "create_importance_view" ->
            name = ImportanceName(c.args.metric, c.args.top_n)
      [] c.op = "create_layer_views" ->
            \E i \in DOMAIN c.args.layer_patterns :
                name = LayerName(c.args.layer_patterns[i][1])
      [] c.op = "create_dependency_chain_view" ->
            name = DependencyName(c.args.start_class, c.args.end_class)
      [] c.op = "create_god_class_view" -> name = <<"god_classes">>
      [] c.op = "auto_create_views" ->
            \/ \E ns \in DiscoveredNamespaces : name = NamespaceName(ns)
            \/ name[1] = "community_"
            \/ name = <<"hotspot">>
            \/ name = ImportanceName("pagerank", AutoTopN)
      [] OTHER -> FALSE

\* C21: no step of the filter removes a name from the view store, and a
\* step changes the node set only of the names the call derives itself;
\* every other entry keeps its node set.
C21_StoreOnlyGrows ==
    [][\A name \in DOMAIN views :
          /\ name \in DOMAIN views'
          /\ ~Derives(call', name) => views'[name] = views[name]]_vars

\* A call has overwritten one entry of the store with a different node set
\* and added a name, while an entry of another name is as it was.
C21_Witness ==
    /\ call # NoCall
    /\ \E name \in DOMAIN last.views :
          Derives(call, name) /\ views[name] # last.views[name]
    /\ \E other \in DOMAIN last.views :
          ~Derives(call, other) /\ views[other] = last.views[other]
    /\ DOMAIN views # DOMAIN last.views

(***************************************************************************)
(* Namespace views (claims C22 and C26, under SpecFilter).                 *)
(***************************************************************************)
\* The namespaces a create_namespace_views call goes through.
NamespaceListOf(c) ==
    IF IsNone(c.args.namespace_list) THEN DiscoveredNamespaces
    ELSE SeqToSet(c.args.namespace_list.val)

\* C22: after create_namespace_views, a namespace of the list has a view in
\* the returned mapping exactly when its prefix match has at least min_nodes
\* nodes; that view, returned and stored, is the prefix match; a namespace
\* below the threshold has no entry the call added.
C22_NamespaceViewIffThreshold ==
    (IsCall("create_namespace_views") /\ IsVal(ret)) =>
        \A ns \in NamespaceListOf(call) :
            LET name == NamespaceName(ns)
                enough == Cardinality(PrefixMatches(ns)) >= call.args.min_nodes
            IN /\ name \in DOMAIN ret.val <=> enough
               /\ enough => /\ name \in DOMAIN views
                            /\ ret.val[name] = PrefixMatches(ns)
                            /\ views[name] = PrefixMatches(ns)
               /\ ~enough => (name \in DOMAIN views => name \in DOMAIN last.views)

\* The namespaces of the call's list whose prefix match reaches min_nodes.
ReachMinNodes(c) ==
    {ns \in NamespaceListOf(c) : Cardinality(PrefixMatches(ns)) >= c.args.min_nodes}

\* C26: in one create_namespace_views call distinct namespaces that reach
\* min_nodes get distinct view names: the returned mapping has as many
\* entries as there are such namespaces, and the store holds for each of
\* them its own prefix match, not overwritten by another's.
C26_OneViewPerNamespace ==
    (IsCall("create_namespace_views") /\ IsVal(ret)) =>
        /\ \A ns, other \in ReachMinNodes(call) :
              ns # other => NamespaceName(ns) # NamespaceName(other)
        /\ Cardinality(DOMAIN ret.val) = Cardinality(ReachMinNodes(call))
        /\ \A ns \in ReachMinNodes(call) :
              /\ NamespaceName(ns) \in DOMAIN views
              /\ views[NamespaceName(ns)] = PrefixMatches(ns)

(***************************************************************************)
(* Hop distance (claim C23, under Spec).                                   *)
(***************************************************************************)
\* One step from a to b: along an edge for out, against one for in, either
\* way for both.
IsStep(a, b, direction) ==
    \/ direction \in {"out", "both"} /\ <<a, b>> \in EdgeSet(graph)
    \/ direction \in {"in", "both"} /\ <<b, a>> \in EdgeSet(graph)

\* The nodes some walk of at most `hops` steps from center ends in.
WithinDistance(center, hops, direction) ==
    {p[Len(p)] : p \in {w \in SeqsUpTo(NodeSet(graph), hops + 1) :
                           /\ Len(w) >= 1
                           /\ w[1] = center
                           /\ \A i \in 1..(Len(w) - 1) :
                                 IsStep(w[i], w[i + 1], direction)}}

\* C23: for a center that is a node and max_hops >= 0 the call returns, and
\* what it returns is the set of nodes at distance at most max_hops from the
\* center in the given direction, on graphs with and without cycles.
C23_HopsAreDistances ==
    (IsCall("get_nodes_within_hops") /\ call.center_node \in NodeSet(graph)) =>
        /\ IsVal(ret)
        /\ ret.val = WithinDistance(call.center_node, call.max_hops, call.direction)

\* On a graph with a cycle through the center and max_hops large enough to
\* go round it, the call returned the nodes of the cycle and left out a
\* node of the graph that no walk from the center reaches.
C23_Witness ==
    /\ IsCall("get_nodes_within_hops")
    /\ call.center_node \in NodeSet(graph)
    /\ call.max_hops >= 2
    /\ \E n \in NodeSet(graph) \ {call.center_node} :
          IsStep(call.center_node, n, "out") /\ IsStep(n, call.center_node, "out")
    /\ IsVal(ret) /\ Cardinality(ret.val) = 2
    /\ NodeSet(graph) \ ret.val # {}

(***************************************************************************)
(* Views of a base selection and its neighbours (claim C24, under          *)
(* SpecFilter).                                                            *)
(***************************************************************************)
\* The base selection united with the sources of the edges into and the
\* targets of the edges out of each of its nodes.
BaseAndNeighbors(base) == base \cup UNION {EdgesInto(b) \cup EdgesOutOf(b) : b \in base}

\* What the view of a base selection is to be.
ViewOfBase(base, include_neighbors) ==
    IF include_neighbors THEN BaseAndNeighbors(base) ELSE base

\* The view is returned and stored under `name`.
ReturnedAndStored(name, nodes) ==
    /\ ret = Val(nodes)
    /\ name \in DOMAIN views
    /\ views[name] = nodes

\* The nodes get_top_nodes_by_metric lists for the call's metric and top_n.
TopNodes ==
    LET top == get_top_nodes_by_metric(graph, cache, call.args.metric,
                                       call.args.top_n, <<>>).ret.val
    IN {top[i][1] : i \in DOMAIN top}

\* C24: the hotspot, importance and god-class views are the base selection
\* (find_hotspots, the top nodes of the metric, find_god_classes) with the
\* neighbours in both directions of each of its nodes when include_neighbors
\* is true, and the base selection alone when it is false; the view is
\* returned and stored under hotspot, importance_<metric>_top<n>,
\* god_classes, also when the base selection is empty.
C24_BaseWithNeighbors ==
    /\ IsCall("create_hotspot_view") =>
          ReturnedAndStored(<<"hotspot">>,
              ViewOfBase(find_hotspots(graph, call.args.min_degree,
                                       call.args.min_complexity),
                         call.args.include_neighbors))
    /\ (IsCall("create_importance_view") /\ call.args.metric \in Metrics) =>
          ReturnedAndStored(ImportanceName(call.args.metric, call.args.top_n),
              ViewOfBase(TopNodes, call.args.include_neighbors))
    /\ IsCall("create_god_class_view") =>
          ReturnedAndStored(<<"god_classes">>,
              ViewOfBase(find_god_classes(graph, call.args.threshold_percentile),
                         call.args.include_neighbors))

\* After an importance view of an empty selection was stored empty, a
\* hotspot view with neighbours that holds more nodes than its base
\* selection.
C24_Witness ==
    /\ IsCall("create_hotspot_view") /\ call.args.include_neighbors
    /\ find_hotspots(graph, call.args.min_degree, call.args.min_complexity) # {}
    /\ IsVal(ret)
    /\ ret.val # find_hotspots(graph, call.args.min_degree, call.args.min_complexity)
    /\ last.call.op = "create_importance_view"
    /\ last.ret = Val({})
    /\ views[ImportanceName(last.call.args.metric, last.call.args.top_n)] = {}

(***************************************************************************)
(* What auto_create_views returns and what it stores (claim C25, under     *)
(* SpecFilter).                                                            *)
(***************************************************************************)
\* The entries of the store the current call added or changed.
Written == {name \in DOMAIN views :
               name \notin DOMAIN last.views \/ views[name] # last.views[name]}

\* C25: after auto_create_views every key of the returned mapping is a name
\* of the store with the same node set; every non-empty view the call wrote
\* is in the returned mapping under the name it is stored under; the names
\* the call added are names of the namespace, community, hotspot and
\* importance strategies.
C25_AutoReturnsWhatItStored ==
    (IsCall("auto_create_views") /\ IsVal(ret)) =>
        /\ \A name \in DOMAIN ret.val :
              name \in DOMAIN views /\ views[name] = ret.val[name]
        /\ \A name \in Written :
              views[name] # {} => (name \in DOMAIN ret.val /\ ret.val[name] = views[name])
        /\ \A name \in DOMAIN views \ DOMAIN last.views : Derives(call, name)

(***************************************************************************)
(* The coupling table as an account of the graph (claim C27, under         *)
(* SpecAnalyzer).                                                          *)
(***************************************************************************)
\* The sum of a field over the rows of a table.
RECURSIVE SumOf(_, _, _)
SumOf(table, field, keys) ==
    IF keys = {} THEN 0
    ELSE LET k == CHOOSE x \in keys : TRUE
         IN table[k][field] + SumOf(table, field, keys \ {k})

\* C27: in the table analyze_namespace_coupling returns, the internal_edges
\* of all namespaces plus half the external_edges of all namespaces is the
\* number of edges of the graph, and the node_count of all namespaces sums
\* to the number of nodes.
C27_TableAccountsForGraph ==
    (IsCall("analyze_namespace_coupling") /\ IsVal(ret)) =>
        /\ 2 * SumOf(ret.val, "internal_edges", DOMAIN ret.val)
             + SumOf(ret.val, "external_edges", DOMAIN ret.val)
             = 2 * Cardinality(EdgeSet(graph))
        /\ SumOf(ret.val, "node_count", DOMAIN ret.val) = Cardinality(NodeSet(graph))

\* A table of two namespaces for a graph of three nodes with an edge inside
\* a namespace and an edge between the namespaces.
C27_Witness ==
    /\ IsCall("analyze_namespace_coupling") /\ IsVal(ret)
    /\ Cardinality(DOMAIN ret.val) = 2
    /\ Cardinality(NodeSet(graph)) = 3
    /\ \E e \in EdgeSet(graph) : graph.attr[e[1]].namespace = graph.attr[e[2]].namespace
    /\ \E e \in EdgeSet(graph) : graph.attr[e[1]].namespace # graph.attr[e[2]].namespace
    /\ SumOf(ret.val, "external_edges", DOMAIN ret.val) = 2

====
